---------------------------- MODULE Spec2Model ----------------------------
(***************************************************************************)
(* The request template of cfn-custom-resource-responder                   *)
(* (src/cfn_custom_resource_responder.py, vtl_template, lines 42-81).      *)
(*                                                                         *)
(* The template is rendered once per event.  It splits                     *)
(* detail.requestPayload.ResponseURL into the path and the query string of *)
(* the outbound PUT (written to $context.requestOverride) and emits the    *)
(* JSON text of the callback body.                                         *)
(*                                                                         *)
(* Strings are sequences of atoms.  An atom is one character; a            *)
(* percent-escape of a URL ("%20") and a run of ordinary characters of a   *)
(* literal of the template ("Status", "Unhandled error: ") are written as  *)
(* one atom.  The characters the template treats specially                 *)
(* (/ ? & = + ' " \ . and the newline) always stand alone.                 *)
(***************************************************************************)
EXTENDS Integers, Sequences, FiniteSets, TLC

VARIABLES
    event,      \* event[t]: the detail of the event translation t renders
    pc,         \* pc[t]: the directive of the template translation t is at
    fullPath,   \* fullPath[t]: the template variable $fullPath
    context,    \* context[c]: $context.requestOverride (path, querystring)
    body,       \* body[t]: the fields of the body emitted so far, in order
    out         \* out[t]: the outbound request handed on (sent), if any

vars == <<event, pc, fullPath, context, body, out>>

(***************************************************************************)
(* Bounds of the model.                                                    *)
(***************************************************************************)
MaxPairs == 2
MaxPathLen == 2
MaxMsgLen == 2
MaxPayloadKeys == 3
MaxConcurrent == 2

SeqsUpTo(S, n) == UNION {[1..m -> S] : m \in 0..n}

RECURSIVE Concat(_)
Concat(ss) == IF ss = <<>> THEN <<>> ELSE Head(ss) \o Concat(Tail(ss))

(***************************************************************************)
(* java.lang.String.split(regex, limit) for a one-character delimiter.     *)
(***************************************************************************)
IndexOf(s, d) ==
    IF \E i \in 1..Len(s) : s[i] = d
    THEN CHOOSE i \in 1..Len(s) : s[i] = d /\ \A j \in 1..(i - 1) : s[j] # d
    ELSE 0

\* n: the number of cuts still allowed, -1 for no limit
RECURSIVE SplitRec(_, _, _)
SplitRec(s, d, n) ==
    LET i == IndexOf(s, d)
    IN  IF i = 0 \/ n = 0
        THEN <<s>>
        ELSE <<SubSeq(s, 1, i - 1)>> \o SplitRec(SubSeq(s, i + 1, Len(s)), d, n - 1)

RECURSIVE DropTrailingEmpty(_)
DropTrailingEmpty(ps) ==
    IF ps # <<>> /\ ps[Len(ps)] = <<>>
    THEN DropTrailingEmpty(SubSeq(ps, 1, Len(ps) - 1))
    ELSE ps

JavaSplit(s, d, limit) ==
    IF IndexOf(s, d) = 0 THEN <<s>>
    ELSE IF limit > 0 THEN SplitRec(s, d, limit - 1)
    ELSE DropTrailingEmpty(SplitRec(s, d, -1))

(***************************************************************************)
(* $util.urlDecode: application/x-www-form-urlencoded decoding.  A '+' is  *)
(* a space, a %XX escape is its character, an incomplete or non-hex escape *)
(* (the atom "%zz") is an error.                                           *)
(***************************************************************************)
Escapes == {"%20", "%2F", "%3D", "%2B", "%3F", "%26"}

Unescaped(a) ==
    CASE a = "%20" -> " "
      [] a = "%2F" -> "/"
      [] a = "%3D" -> "="
      [] a = "%2B" -> "+"
      [] a = "%3F" -> "?"
      [] a = "%26" -> "&"

DecodeAtom(a) ==
    IF a = "+" THEN " "
    ELSE IF a \in Escapes THEN Unescaped(a)
    ELSE a

UrlDecodable(s) == \A i \in 1..Len(s) : s[i] # "%zz"

UrlDecode(s) == [i \in 1..Len(s) |-> DecodeAtom(s[i])]

(***************************************************************************)
(* $util.escapeJavaScript (commons-lang StringEscapeUtils) and the         *)
(* template's .replaceAll("\\'","'").                                      *)
(***************************************************************************)
EscapeJavaScriptAtom(a) ==
    CASE a = "'"  -> <<"\\", "'">>
      [] a = "\"" -> <<"\\", "\"">>
      [] a = "\\" -> <<"\\", "\\">>
      [] a = "/"  -> <<"\\", "/">>
      [] a = "\n" -> <<"\\", "n">>
      [] OTHER    -> <<a>>

EscapeJavaScript(s) == Concat([i \in 1..Len(s) |-> EscapeJavaScriptAtom(s[i])])

RECURSIVE ReplaceAll(_, _, _)
ReplaceAll(s, pat, rep) ==
    IF Len(s) < Len(pat) THEN s
    ELSE IF SubSeq(s, 1, Len(pat)) = pat
         THEN rep \o ReplaceAll(SubSeq(s, Len(pat) + 1, Len(s)), pat, rep)
         ELSE <<Head(s)>> \o ReplaceAll(Tail(s), pat, rep)

\* a variant that leaves the escaper's \' in place
EscapeForJsonQuoteKept(s) == EscapeJavaScript(s)

\* $util.escapeJavaScript(x).replaceAll("\\'","'")
EscapeForJson(s) == ReplaceAll(EscapeJavaScript(s), <<"\\", "'">>, <<"'">>)

(***************************************************************************)
(* JSON values of the event: [t |-> "string" | "number" | "null", s |->    *)
(* the string's characters or the number's digits].  Missing is what a     *)
(* JSONPath that selects nothing yields.                                   *)
(***************************************************************************)
Str(s) == [t |-> "string", s |-> s]
Num(s) == [t |-> "number", s |-> s]
Null == [t |-> "null", s |-> <<>>]
Missing == [t |-> "missing", s |-> <<>>]

\* the JSON serialisation of a string's characters
JsonEscapeAtom(a) ==
    CASE a = "\"" -> <<"\\", "\"">>
      [] a = "\\" -> <<"\\", "\\">>
      [] a = "\n" -> <<"\\", "n">>
      [] OTHER    -> <<a>>

JsonEscape(s) == Concat([i \in 1..Len(s) |-> JsonEscapeAtom(s[i])])

\* the text $input.json(path) renders for the value the path selects;
\* a path that selects nothing renders as the empty string ""
JsonText(v) ==
    CASE v.t = "string"  -> <<"\"">> \o JsonEscape(v.s) \o <<"\"">>
      [] v.t = "number"  -> v.s
      [] v.t = "null"    -> <<"null">>
      [] v.t = "missing" -> <<"\"", "\"">>

(***************************************************************************)
(* The event: detail.requestPayload (ResponseURL apart, a map from key to  *)
(* value), detail.responseContext.functionError (present or not) and       *)
(* detail.responsePayload (absent, or an ordered map).                     *)
(***************************************************************************)
ContainsKey(m, k) == k \in DOMAIN m

RequestField(e, k) ==
    IF ContainsKey(e.requestPayload, k) THEN e.requestPayload[k] ELSE Missing

PayloadHas(e, k) ==
    \E i \in 1..Len(e.responsePayload) : e.responsePayload[i].k = k

PayloadGet(e, k) ==
    IF PayloadHas(e, k)
    THEN e.responsePayload[CHOOSE i \in 1..Len(e.responsePayload) :
                               e.responsePayload[i].k = k].v
    ELSE Missing

\* $input.json("$.detail.responsePayload.$responseKey"): the key is pasted
\* into a dot-notation path, so a key holding a '.' selects a child of a
\* shorter key, and the values here have no children
PayloadJsonPath(e, k) ==
    IF \E i \in 1..Len(k) : k[i] = "." THEN Missing ELSE PayloadGet(e, k)

(***************************************************************************)
(* Lines 45-51: the path and the query string.                             *)
(***************************************************************************)
\* a split without the limit
UrlSegmentsWhole(url) == JavaSplit(url, "/", 0)

\* line 45: ResponseURL.split('/', 4)
UrlSegments(url) == JavaSplit(url, "/", 4)

\* lines 46, 47: $fullPath.split('\?', 2)
PathAndQuery(fp) == JavaSplit(fp, "?", 2)

\* a split at every '='
SplitPairEvery(pair) == JavaSplit(pair, "=", 0)

\* lines 48, 49: $qsPair.split('=', 2)
SplitPair(pair) == JavaSplit(pair, "=", 2)

HasKey(qs, k) == \E i \in 1..Len(qs) : qs[i][1] = k

\* line 50: querystring[$qsKey] = $qsValue on a map that keeps the order
\* in which its keys were first put
Put(qs, k, v) ==
    IF HasKey(qs, k)
    THEN [i \in 1..Len(qs) |-> IF qs[i][1] = k THEN <<k, v>> ELSE qs[i]]
    ELSE Append(qs, <<k, v>>)

\* lines 47-51: the #foreach over the pairs; an index past the end of a
\* split and a malformed escape abort the rendering where they occur
RECURSIVE PutPairs(_, _)
PutPairs(pairs, qs) ==
    IF pairs = <<>> THEN [ok |-> TRUE, qs |-> qs]
    ELSE LET kv == SplitPair(Head(pairs))
         IN  IF ~UrlDecodable(kv[1]) \/ Len(kv) < 2 THEN [ok |-> FALSE, qs |-> qs]
             ELSE IF ~UrlDecodable(kv[2]) THEN [ok |-> FALSE, qs |-> qs]
             ELSE PutPairs(Tail(pairs), Put(qs, UrlDecode(kv[1]), UrlDecode(kv[2])))

(***************************************************************************)
(* Lines 52-79: the fields of the body, each <<key text, value text>>.     *)
(***************************************************************************)
Quoted(s) == <<"\"">> \o s \o <<"\"">>

\* lines 54, 55: a #set whose right side is null leaves the variable
\* undefined, and the reference then renders as its own text
ErrorText(e, name) ==
    IF PayloadHas(e, <<name>>)
    THEN EscapeForJson(PayloadGet(e, <<name>>).s)
    ELSE <<"$" \o name>>

\* lines 53-61
StatusFields(e) ==
    IF e.functionError
    THEN << <<(<<"Status">>), Quoted(<<"FAILED">>)>>,
            <<(<<"Reason">>), Quoted(<<"Unhandled error: ">> \o ErrorText(e, "errorType")
                                     \o <<":", " ">> \o ErrorText(e, "errorMessage"))>> >>
    ELSE << <<(<<"Status">>), Quoted(<<"SUCCESS">>)>>,
            <<(<<"Reason">>), Quoted(<<>>)>> >>

\* lines 63-67
PhysicalField(e) ==
    IF ContainsKey(e.requestPayload, "PhysicalResourceId")
    THEN << <<(<<"PhysicalResourceId">>), JsonText(RequestField(e, "PhysicalResourceId"))>> >>
    ELSE << <<(<<"PhysicalResourceId">>), JsonText(RequestField(e, "RequestId"))>> >>

PayloadEntry(e, i) ==
    <<EscapeForJson(e.responsePayload[i].k), JsonText(PayloadJsonPath(e, e.responsePayload[i].k))>>

\* the keys in the reverse of their order
PayloadFieldsReversed(e) ==
    IF e.functionError THEN <<>>
    ELSE [i \in 1..Len(e.responsePayload) |->
              PayloadEntry(e, Len(e.responsePayload) + 1 - i)]

\* lines 69-74: #foreach over responsePayload.keySet(); a missing
\* responsePayload is a null the #foreach skips
PayloadFields(e) ==
    IF e.functionError THEN <<>>
    ELSE [i \in 1..Len(e.responsePayload) |-> PayloadEntry(e, i)]

\* lines 76-78
FixedFields(e) ==
    << <<(<<"StackId">>), JsonText(RequestField(e, "StackId"))>>,
       <<(<<"RequestId">>), JsonText(RequestField(e, "RequestId"))>>,
       <<(<<"LogicalResourceId">>), JsonText(RequestField(e, "LogicalResourceId"))>> >>

(***************************************************************************)
(* The rendering of one event, directive by directive.  $context and the   *)
(* template's variables belong to the request being rendered.              *)
(***************************************************************************)
Translations == DOMAIN event

\* one context for every rendering
ContextShared(t) == 1

ContextOf(t) == t

Reject(t) ==
    /\ pc' = [pc EXCEPT ![t] = "rejected"]
    /\ UNCHANGED <<event, out>>

\* lines 44-45
SplitUrl(t) ==
    /\ pc[t] = "url"
    /\ LET segs == UrlSegments(event[t].ResponseURL)
       IN  IF Len(segs) < 4
           THEN Reject(t) /\ UNCHANGED <<fullPath, context, body>>
           ELSE /\ fullPath' = [fullPath EXCEPT ![t] = segs[4]]
                /\ pc' = [pc EXCEPT ![t] = "path"]
                /\ UNCHANGED <<event, context, body, out>>

\* line 46
SetPath(t) ==
    /\ pc[t] = "path"
    /\ LET raw == PathAndQuery(fullPath[t])[1]
       IN  IF ~UrlDecodable(raw)
           THEN Reject(t) /\ UNCHANGED <<fullPath, context, body>>
           ELSE /\ context' = [context EXCEPT ![ContextOf(t)].path = UrlDecode(raw)]
                /\ pc' = [pc EXCEPT ![t] = "query"]
                /\ UNCHANGED <<event, fullPath, body, out>>

\* lines 47-51
SetQuery(t) ==
    /\ pc[t] = "query"
    /\ LET pq == PathAndQuery(fullPath[t])
       IN  IF Len(pq) < 2
           THEN Reject(t) /\ UNCHANGED <<fullPath, context, body>>
           ELSE LET r == PutPairs(JavaSplit(pq[2], "&", 0),
                                  context[ContextOf(t)].querystring)
                IN  /\ context' = [context EXCEPT ![ContextOf(t)].querystring = r.qs]
                    /\ IF r.ok
                       THEN pc' = [pc EXCEPT ![t] = "status"] /\ UNCHANGED <<event, out>>
                       ELSE Reject(t)
                    /\ UNCHANGED <<fullPath, body>>

\* lines 52-61
EmitStatus(t) ==
    /\ pc[t] = "status"
    /\ body' = [body EXCEPT ![t] = @ \o StatusFields(event[t])]
    /\ pc' = [pc EXCEPT ![t] = "physical"]
    /\ UNCHANGED <<event, fullPath, context, out>>

\* lines 63-67
EmitPhysicalResourceId(t) ==
    /\ pc[t] = "physical"
    /\ body' = [body EXCEPT ![t] = @ \o PhysicalField(event[t])]
    /\ pc' = [pc EXCEPT ![t] = "payload"]
    /\ UNCHANGED <<event, fullPath, context, out>>

\* lines 69-74
EmitPayload(t) ==
    /\ pc[t] = "payload"
    /\ body' = [body EXCEPT ![t] = @ \o PayloadFields(event[t])]
    /\ pc' = [pc EXCEPT ![t] = "fixed"]
    /\ UNCHANGED <<event, fullPath, context, out>>

\* lines 76-79: the last fields; the rendered body and the overrides of
\* the request's context make the outbound request
EmitFixed(t) ==
    /\ pc[t] = "fixed"
    /\ body' = [body EXCEPT ![t] = @ \o FixedFields(event[t])]
    /\ out' = [out EXCEPT ![t] = [sent |-> TRUE,
                                  path |-> context[ContextOf(t)].path,
                                  querystring |-> context[ContextOf(t)].querystring,
                                  body |-> body'[t]]]
    /\ pc' = [pc EXCEPT ![t] = "done"]
    /\ UNCHANGED <<event, fullPath, context>>

Next ==
    \/ \E t \in Translations : SplitUrl(t)
    \/ \E t \in Translations : SetPath(t)
    \/ \E t \in Translations : SetQuery(t)
    \/ \E t \in Translations : EmitStatus(t)
    \/ \E t \in Translations : EmitPhysicalResourceId(t)
    \/ \E t \in Translations : EmitPayload(t)
    \/ \E t \in Translations : EmitFixed(t)

(***************************************************************************)
(* The events.  Each family varies one part of the event over a bounded    *)
(* set and keeps the rest at the values of a plain event.                  *)
(***************************************************************************)
Event(url, rp, fe, has, payload) ==
    [ResponseURL |-> url, requestPayload |-> rp, functionError |-> fe,
     hasResponsePayload |-> has, responsePayload |-> payload]

Entry(k, v) == [k |-> k, v |-> v]

Host == <<"https:", "/", "/", "host">>

PlainUrl == Host \o <<"/", "a", "?", "k", "=", "v">>

PlainRequest ==
    [k \in {"StackId", "RequestId", "LogicalResourceId"} |->
        CASE k = "StackId" -> Str(<<"S">>)
          [] k = "RequestId" -> Str(<<"R">>)
          [] k = "LogicalResourceId" -> Str(<<"L">>)]

PlainPayload == <<Entry(<<"Data">>, Str(<<"ok">>))>>

RECURSIVE Join(_, _)
Join(ss, d) ==
    IF ss = <<>> THEN <<>>
    ELSE IF Len(ss) = 1 THEN ss[1]
    ELSE ss[1] \o <<d>> \o Join(Tail(ss), d)

\* the raw pairs of a query string: with and without '=', with an empty
\* value, with '=', '?', '+' and escapes in the value, with a bad escape
QueryKeys == {<<"k">>, <<"j">>}
QueryValues == {<<>>, <<"v">>, <<"=">>, <<"?">>, <<"+">>, <<"%20">>, <<"%zz">>}
QueryPairs ==
    {k \o <<"=">> \o v : k \in QueryKeys, v \in QueryValues} \cup {<<>>, <<"k">>}

QueryUrls ==
    {Host \o <<"/", "a">>} \cup
    {Host \o <<"/", "a", "?">> \o Join(ps, "&") : ps \in SeqsUpTo(QueryPairs, MaxPairs)}

PathAtoms == {"a", "/", "%2F", "+", "%zz"}

PathUrls ==
    {Host \o <<"/">> \o p \o <<"?", "k", "=", "v">> : p \in SeqsUpTo(PathAtoms, MaxPathLen)}

\* URLs with fewer slashes than the template's split expects
ShortUrls ==
    {pre \o tl : pre \in {<<>>, <<"host">>, <<"host", "/">>, <<"https:", "/", "/">>, Host},
                 tl \in {<<>>, <<"a">>, <<"a", "?", "k", "=", "v">>}}

RequestValues(k) ==
    CASE k = "StackId" -> {Str(<<"S">>)}
      [] k = "RequestId" -> {Str(<<"R">>), Str(<<"\"">>)}
      [] k = "LogicalResourceId" -> {Str(<<"L">>)}
      [] k = "PhysicalResourceId" -> {Str(<<"P">>), Str(<<"p", "\\", "'">>), Num(<<"7">>), Null}

RequestKeys == {"StackId", "RequestId", "LogicalResourceId", "PhysicalResourceId"}

Requests ==
    UNION {{rp \in [K -> UNION {RequestValues(k) : k \in K}] :
                \A k \in K : rp[k] \in RequestValues(k)} : K \in SUBSET RequestKeys}

MsgAtoms == {"a", "'", "\"", "\\", "\n", "/"}

\* what a failed invocation leaves in responsePayload
ErrorPayloads ==
    {<<Entry(<<"errorType">>, Str(ty)), Entry(<<"errorMessage">>, Str(msg))>> :
        ty \in {<<"E">>, <<"'">>}, msg \in SeqsUpTo(MsgAtoms, MaxMsgLen)}
    \cup {<<Entry(<<"errorMessage">>, Str(<<"m">>)), Entry(<<"Status">>, Str(<<"x">>))>>,
          <<Entry(<<"errorType">>, Str(<<"E">>))>>,
          <<>>}

PayloadKeys ==
    {<<"B">>, <<"A">>, <<"C">>, <<"Status">>, <<"PhysicalResourceId">>, <<"StackId">>,
     <<"a", "'", "b">>, <<"a", ".", "b">>}

PayloadValue(k) ==
    CASE k = <<"Status">> -> Str(<<"FAILED">>)
      [] k = <<"PhysicalResourceId">> -> Str(<<"Q">>)
      [] k = <<"B">> -> Num(<<"1">>)
      [] OTHER -> Str(k)

\* ordered maps: the keys of a map are distinct
Payloads ==
    {[i \in 1..Len(ks) |-> Entry(ks[i], PayloadValue(ks[i]))] :
        ks \in {q \in SeqsUpTo(PayloadKeys, MaxPayloadKeys) :
                    \A i, j \in 1..Len(q) : i # j => q[i] # q[j]}}

Events ==
    {Event(u, PlainRequest, FALSE, TRUE, PlainPayload) : u \in QueryUrls \cup PathUrls \cup ShortUrls}
    \cup {Event(PlainUrl, rp, fe, TRUE,
                IF fe THEN <<Entry(<<"errorType">>, Str(<<"E">>)),
                             Entry(<<"errorMessage">>, Str(<<"m">>))>>
                      ELSE PlainPayload) : rp \in Requests, fe \in BOOLEAN}
    \cup {Event(PlainUrl, PlainRequest, TRUE, TRUE, p) : p \in ErrorPayloads}
    \cup {Event(PlainUrl, PlainRequest, FALSE, TRUE, p) : p \in Payloads}
    \cup {Event(PlainUrl, PlainRequest, fe, FALSE, <<>>) : fe \in BOOLEAN}

\* the events rendered side by side: they differ in every part of the
\* outbound request
ConcurrentEvents ==
    {Event(PlainUrl, PlainRequest, FALSE, TRUE, PlainPayload),
     Event(Host \o <<"/", "b", "/", "c", "?", "j", "=", "%20", "&", "k", "=", "w">>,
           [PlainRequest EXCEPT !["RequestId"] = Str(<<"R2">>)], FALSE, TRUE,
           <<Entry(<<"B">>, Num(<<"1">>)), Entry(<<"A">>, Str(<<"x">>))>>),
     Event(Host \o <<"/", "d", "?", "k", "=", "u">>,
           [PlainRequest EXCEPT !["StackId"] = Str(<<"S3">>)], TRUE, TRUE,
           <<Entry(<<"errorType">>, Str(<<"E">>)), Entry(<<"errorMessage">>, Str(<<"it", "'", "s">>))>>),
     Event(Host \o <<"/", "e">>, PlainRequest, FALSE, TRUE, PlainPayload)}

NoRequest == [sent |-> FALSE, path |-> <<>>, querystring |-> <<>>, body |-> <<>>]

InitOver(T, E) ==
    /\ event \in [T -> E]
    /\ pc = [t \in T |-> "url"]
    /\ fullPath = [t \in T |-> <<>>]
    /\ context = [t \in T |-> [path |-> <<>>, querystring |-> <<>>]]
    /\ body = [t \in T |-> <<>>]
    /\ out = [t \in T |-> NoRequest]

\* one event, rendered alone
Init == InitOver({1}, Events)

Spec == Init /\ [][Next]_vars

\* several events, rendered concurrently in any interleaving
InitConcurrent == InitOver(1..MaxConcurrent, ConcurrentEvents)

SpecConcurrent == InitConcurrent /\ [][Next]_vars

(***************************************************************************)
(* What the claims speak of, stated apart from the template's own          *)
(* operators: the reader of the body (RFC 8259), the re-encoding of the    *)
(* outbound path and query, and the parts of a URL by position.            *)
(***************************************************************************)
Finished(t) == pc[t] \in {"done", "rejected"}

Count(s, a) == Cardinality({i \in 1..Len(s) : s[i] = a})

\* the string a JSON reader decodes from the text between two quotes
RECURSIVE JsonDecode(_)
JsonDecode(s) ==
    IF s = <<>> THEN [ok |-> TRUE, v |-> <<>>]
    ELSE IF s[1] = "\\"
    THEN IF Len(s) >= 2 /\ s[2] \in {"\"", "\\", "/", "n"}
         THEN LET r == JsonDecode(SubSeq(s, 3, Len(s)))
              IN  [ok |-> r.ok, v |-> <<IF s[2] = "n" THEN "\n" ELSE s[2]>> \o r.v]
         ELSE [ok |-> FALSE, v |-> <<>>]
    ELSE IF s[1] \in {"\"", "\n"} THEN [ok |-> FALSE, v |-> <<>>]
    ELSE LET r == JsonDecode(Tail(s))
         IN  [ok |-> r.ok, v |-> <<s[1]>> \o r.v]

IsQuoted(x) == Len(x) >= 2 /\ x[1] = "\"" /\ x[Len(x)] = "\""

Inner(x) == SubSeq(x, 2, Len(x) - 1)

\* the value a JSON reader takes from a field's text
JsonRead(x) ==
    IF IsQuoted(x)
    THEN IF JsonDecode(Inner(x)).ok THEN Str(JsonDecode(Inner(x)).v)
         ELSE [t |-> "invalid", s |-> <<>>]
    ELSE IF x = <<"null">> THEN Null
    ELSE Num(x)

\* the positions of the body's fields whose decoded key is k; a reader of
\* a body that repeats a key may report any of them
FieldsNamed(b, k) == {i \in 1..Len(b) : JsonDecode(b[i][1]) = [ok |-> TRUE, v |-> k]}

FixedNames ==
    {<<"Status">>, <<"Reason">>, <<"PhysicalResourceId">>,
     <<"StackId">>, <<"RequestId">>, <<"LogicalResourceId">>}

\* what follows the n-th '/' of s (s itself when n = 0)
RECURSIVE AfterSlash(_, _)
AfterSlash(s, n) ==
    IF n = 0 THEN s ELSE AfterSlash(SubSeq(s, IndexOf(s, "/") + 1, Len(s)), n - 1)

Before(s, d) == SubSeq(s, 1, IndexOf(s, d) - 1)
After(s, d) == SubSeq(s, IndexOf(s, d) + 1, Len(s))

\* every '&'-separated piece of the query, empty ones too
Pieces(q) == SplitRec(q, "&", -1)

\* percent-decoding proper: escapes only, a '+' stays a '+'
PercentDecode(s) == [i \in 1..Len(s) |-> IF s[i] \in Escapes THEN Unescaped(s[i]) ELSE s[i]]

\* the percent-encoding the outbound request is sent with
EncodeAtom(a, inPath) ==
    CASE a = " " -> "%20"
      [] a = "/" -> IF inPath THEN "/" ELSE "%2F"
      [] a = "=" -> "%3D"
      [] a = "+" -> "%2B"
      [] a = "?" -> "%3F"
      [] a = "&" -> "%26"
      [] OTHER   -> a

Encode(s, inPath) == [i \in 1..Len(s) |-> EncodeAtom(s[i], inPath)]

Recomposed(o) ==
    Encode(o.path, TRUE) \o <<"?">>
    \o Join([i \in 1..Len(o.querystring) |->
                Encode(o.querystring[i][1], FALSE) \o <<"=">>
                \o Encode(o.querystring[i][2], FALSE)], "&")

\* a URL with a tail after its third '/', a query after the tail's first
\* '?', an '=' in every piece of the query and no malformed escape
WellFormedUrl(u) ==
    /\ Count(u, "/") >= 3
    /\ LET tl == AfterSlash(u, 3)
       IN  /\ IndexOf(tl, "?") > 0
           /\ UrlDecodable(tl)
           /\ \A i \in 1..Len(Pieces(After(tl, "?"))) :
                  IndexOf(Pieces(After(tl, "?"))[i], "=") > 0

RawKey(p) == Before(p, "=")
RawValue(p) == After(p, "=")

(***************************************************************************)
(* The claims.                                                             *)
(***************************************************************************)
Done(t) == pc[t] = "done"

Success(e) == ~e.functionError

\* the value lines 63-67 derive for PhysicalResourceId from requestPayload
DerivedPhysicalResourceId(e) ==
    IF "PhysicalResourceId" \in DOMAIN e.requestPayload
    THEN e.requestPayload["PhysicalResourceId"]
    ELSE e.requestPayload["RequestId"]

\* C1: the body's Status is decided by the function-error marker alone: a
\* body of a success event has no Status a reader can report as "FAILED",
\* a body of a failure event has no Status a reader can report as
\* "SUCCESS" and holds the six fixed fields only, no responsePayload key.
StatusByMarkerAlone ==
    \A t \in Translations : Done(t) =>
        LET b == out[t].body
            e == event[t]
        IN  /\ Success(e) =>
                \A i \in FieldsNamed(b, <<"Status">>) : JsonRead(b[i][2]) # Str(<<"FAILED">>)
            /\ ~Success(e) =>
                /\ \A i \in FieldsNamed(b, <<"Status">>) : JsonRead(b[i][2]) # Str(<<"SUCCESS">>)
                /\ Len(b) = 6

\* C2: in every body, of a success or of a failure, PhysicalResourceId is
\* requestPayload.PhysicalResourceId when requestPayload has that key and
\* requestPayload.RequestId when it has not.
PhysicalResourceIdPrecedence ==
    \A t \in Translations :
        (Done(t) /\ {"PhysicalResourceId", "RequestId"} \cap DOMAIN event[t].requestPayload # {}
                 /\ ("PhysicalResourceId" \notin DOMAIN event[t].requestPayload
                        => "RequestId" \in DOMAIN event[t].requestPayload)) =>
            LET b == out[t].body
            IN  /\ FieldsNamed(b, <<"PhysicalResourceId">>) # {}
                /\ \A i \in FieldsNamed(b, <<"PhysicalResourceId">>) :
                       JsonRead(b[i][2]) = DerivedPhysicalResourceId(event[t])

\* C10: in every body each key occurs exactly once, and Status and
\* PhysicalResourceId, StackId, RequestId and LogicalResourceId have the
\* values derived from the marker and requestPayload, whatever keys the
\* responsePayload of a success holds.
EachKeyOnceFixedValuesKept ==
    \A t \in Translations : Done(t) =>
        LET b == out[t].body
            e == event[t]
        IN  /\ \A i \in 1..Len(b) :
                   /\ JsonDecode(b[i][1]).ok
                   /\ FieldsNamed(b, JsonDecode(b[i][1]).v) = {i}
            /\ \A k \in FixedNames : FieldsNamed(b, k) # {}
            /\ \A i \in FieldsNamed(b, <<"Status">>) :
                   JsonRead(b[i][2]) = Str(<<IF Success(e) THEN "SUCCESS" ELSE "FAILED">>)
            /\ \A k \in {"StackId", "RequestId", "LogicalResourceId"} :
                   k \in DOMAIN e.requestPayload =>
                       \A i \in FieldsNamed(b, <<k>>) : JsonRead(b[i][2]) = e.requestPayload[k]

PayloadKeySeq(e) ==
    IF Success(e) THEN [i \in 1..Len(e.responsePayload) |-> e.responsePayload[i].k] ELSE <<>>

\* C4: the keys of the body, as a reader decodes them, are in order
\* Status, Reason, PhysicalResourceId, then for a success the keys of
\* responsePayload in their order, then StackId, RequestId,
\* LogicalResourceId.
FieldOrder ==
    \A t \in Translations : Done(t) =>
        LET b == out[t].body
        IN  /\ \A i \in 1..Len(b) : JsonDecode(b[i][1]).ok
            /\ [i \in 1..Len(b) |-> JsonDecode(b[i][1]).v]
                   = <<(<<"Status">>), <<"Reason">>, <<"PhysicalResourceId">> >>
                     \o PayloadKeySeq(event[t])
                     \o <<(<<"StackId">>), <<"RequestId">>, <<"LogicalResourceId">> >>

\* a success whose responsePayload has the keys B, A, C in this order
FieldOrderWitness ==
    \E t \in Translations :
        /\ Done(t) /\ Success(event[t])
        /\ PayloadKeySeq(event[t]) = <<(<<"B">>), <<"A">>, <<"C">> >>
        /\ Len(out[t].body) = 9

HasError(e) ==
    e.functionError /\ PayloadHas(e, <<"errorType">>) /\ PayloadHas(e, <<"errorMessage">>)

ErrorString(e, name) == PayloadGet(e, <<name>>).s

\* C5: the Reason of a failure is the text of a valid JSON string (no \'
\* in it, every quote, backslash and newline escaped) that decodes to
\* "Unhandled error: " + errorType + ": " + errorMessage, and each
\* apostrophe of errorType and errorMessage is in it as a bare '.
ReasonQuoteCorrection ==
    \A t \in Translations : (Done(t) /\ HasError(event[t])) =>
        LET b == out[t].body
            e == event[t]
        IN  /\ Cardinality(FieldsNamed(b, <<"Reason">>)) = 1
            /\ \A i \in FieldsNamed(b, <<"Reason">>) :
                   /\ IsQuoted(b[i][2])
                   /\ JsonDecode(Inner(b[i][2]))
                          = [ok |-> TRUE,
                             v |-> <<"Unhandled error: ">> \o ErrorString(e, "errorType")
                                   \o <<":", " ">> \o ErrorString(e, "errorMessage")]
                   /\ Count(Inner(b[i][2]), "'")
                          = Count(ErrorString(e, "errorType"), "'")
                            + Count(ErrorString(e, "errorMessage"), "'")

\* a failure whose errorMessage holds an apostrophe next to a character
\* that JSON escapes
ReasonQuoteCorrectionWitness ==
    \E t \in Translations :
        /\ Done(t) /\ HasError(event[t])
        /\ Count(ErrorString(event[t], "errorMessage"), "'") > 0
        /\ \E c \in {"\"", "\\", "\n"} : Count(ErrorString(event[t], "errorMessage"), c) > 0

TailOf(u) == AfterSlash(u, 3)

PiecesOf(u) == Pieces(After(TailOf(u), "?"))

\* the last piece of the query whose decoded key is k
LastWithKey(ps, k) ==
    CHOOSE i \in 1..Len(ps) :
        /\ UrlDecode(RawKey(ps[i])) = k
        /\ \A j \in (i + 1)..Len(ps) : UrlDecode(RawKey(ps[j])) # k

Canonical(u) ==
    LET ps == PiecesOf(u)
        rawPath == Before(TailOf(u), "?")
    IN  /\ Encode(UrlDecode(rawPath), TRUE) = rawPath
        /\ \A i \in 1..Len(ps) :
               /\ Encode(UrlDecode(RawKey(ps[i])), FALSE) = RawKey(ps[i])
               /\ Encode(UrlDecode(RawValue(ps[i])), FALSE) = RawValue(ps[i])
        /\ \A i, j \in 1..Len(ps) :
               UrlDecode(RawKey(ps[i])) = UrlDecode(RawKey(ps[j])) => i = j

Malformed(e) ==
    \/ Count(e.ResponseURL, "/") < 3
    \/ IndexOf(TailOf(e.ResponseURL), "?") = 0
    \/ \E i \in 1..Len(PiecesOf(e.ResponseURL)) : IndexOf(PiecesOf(e.ResponseURL)[i], "=") = 0
    \/ ~({"StackId", "RequestId", "LogicalResourceId"} \subseteq DOMAIN e.requestPayload)

\* C6: a malformed event (fewer than 4 slash-delimited segments, no '?'
\* in the tail, a pair without '=', or requestPayload without StackId,
\* RequestId or LogicalResourceId) is rejected, and no path, query entry
\* or body goes out.
MalformedEventRejected ==
    \A t \in Translations : (Finished(t) /\ Malformed(event[t])) =>
        pc[t] = "rejected" /\ out[t] = NoRequest

Ambiguous(e) ==
    \/ e.functionError /\ ~(PayloadHas(e, <<"errorType">>) /\ PayloadHas(e, <<"errorMessage">>))
    \/ ~e.functionError /\ ~e.hasResponsePayload

\* C7: an event with the marker but without errorType or errorMessage,
\* or without the marker and without responsePayload, is rejected: no
\* body, SUCCESS or FAILED, goes out.
AmbiguousOutcomeRejected ==
    \A t \in Translations : (Finished(t) /\ Ambiguous(event[t])) =>
        pc[t] = "rejected" /\ ~out[t].sent

\* the outbound request of an event rendered on its own
Alone(e) ==
    LET segs == JavaSplit(e.ResponseURL, "/", 4)
    IN  IF Len(segs) < 4 THEN NoRequest
        ELSE LET pq == JavaSplit(segs[4], "?", 2)
             IN  IF ~UrlDecodable(pq[1]) \/ Len(pq) < 2 THEN NoRequest
                 ELSE LET r == PutPairs(JavaSplit(pq[2], "&", 0), <<>>)
                      IN  IF ~r.ok THEN NoRequest
                          ELSE [sent |-> TRUE, path |-> UrlDecode(pq[1]),
                                querystring |-> r.qs,
                                body |-> StatusFields(e) \o PhysicalField(e)
                                         \o PayloadFields(e) \o FixedFields(e)]

\* C9: whatever the interleaving of the renderings, the outbound request
\* of each event (path, query, body, or none) is the one of that event
\* rendered alone.
EachTranslationAsIfAlone ==
    \A t \in Translations : Finished(t) =>
        /\ out[t] = Alone(event[t])
        /\ Done(t) <=> Alone(event[t]).sent

\* one rendering has ended while another, of a different event, is past
\* its query loop and before its body
EachTranslationAsIfAloneWitness ==
    \E t1, t2 \in Translations :
        /\ t1 # t2 /\ event[t1] # event[t2]
        /\ Done(t1) /\ pc[t2] = "status"
        /\ context[t2].querystring # <<>>

=============================================================================
